---- MODULE Spec2Model ----
(***************************************************************************)
(* PCB component placement: the constraint validator of placement_utils.py *)
(* and the randomized, time-bounded search of solver.py.                   *)
(*                                                                         *)
(* Units.  Rectangle fields x, y, w, h and solver positions are in board   *)
(* units, as in the source.  The source computes centres as x + w/2, so    *)
(* centres, the centre of mass and the keep-out zone are half-integers;    *)
(* the model carries them doubled (value * 2).  The solver's target centre *)
(* is a sum of half-integers divided by 2, so the arithmetic that feeds    *)
(* int() is carried in quarter units (value * 4; names ending in 4).       *)
(* The wall clock is in tenths of a second.                                *)
(***************************************************************************)
EXTENDS Integers, FiniteSets, Sequences, Bags, TLC

\* ------------------------------------------------------------------------
\* placement_utils.py: assignment constants
\* ------------------------------------------------------------------------
BOARD_W == 50
BOARD_H == 50
PROXIMITY_RADIUS == 10
CENTER_OF_MASS_RADIUS == 2
KEEPOUT_ZONE_W == 10
KEEPOUT_ZONE_H == 20
VALIDATION_TIME_LIMIT == 2

required_keys ==
    {"USB_CONNECTOR", "MICROCONTROLLER", "CRYSTAL",
     "MIKROBUS_CONNECTOR_1", "MIKROBUS_CONNECTOR_2"}

EmptyMap == [k \in {} |-> 0]

\* _get_center(comp), doubled: 2 * (x + w/2), 2 * (y + h/2)
_get_center(comp) == <<2 * comp.x + comp.w, 2 * comp.y + comp.h>>

\* square of _distance(p1, p2) for doubled points: 4 * distance^2
_distance_sq(p1, p2) ==
    (p2[1] - p1[1]) * (p2[1] - p1[1]) + (p2[2] - p1[2]) * (p2[2] - p1[2])

\* sum(_get_center(c)[axis] for c in placement.values()), doubled: the
\* positive terms and the negative terms are each added up as a bag of
\* (component, count) and the two totals subtracted
SumCenters(placement, axis) ==
    LET c(k) == _get_center(placement[k])[axis]
        pos  == [k \in {q \in DOMAIN placement : c(q) > 0} |-> c(k)]
        neg  == [k \in {q \in DOMAIN placement : c(q) < 0} |-> 0 - c(k)]
    IN  BagCardinality(pos) - BagCardinality(neg)

\* ------------------------------------------------------------------------
\* validate_placement: the seven rules
\* ------------------------------------------------------------------------
all_in_bounds(placement) ==
    \A k \in DOMAIN placement :
        LET comp == placement[k]
        IN  /\ comp.x >= 0
            /\ comp.y >= 0
            /\ comp.x + comp.w <= BOARD_W
            /\ comp.y + comp.h <= BOARD_H

\* the pair test of lines 47-50, with <= turned into < (touching flagged)
pair_overlaps_strict(a, b) ==
    ~ (\/ a.x + a.w < b.x
       \/ a.x > b.x + b.w
       \/ a.y + a.h < b.y
       \/ a.y > b.y + b.h)

\* the pair test of lines 47-50
pair_overlaps(a, b) ==
    ~ (\/ a.x + a.w <= b.x
       \/ a.x >= b.x + b.w
       \/ a.y + a.h <= b.y
       \/ a.y >= b.y + b.h)

\* any(... for i in range(len(items)) for j in range(i + 1, len(items)))
overlap_found(placement) ==
    \E k1 \in DOMAIN placement : \E k2 \in DOMAIN placement \ {k1} :
        pair_overlaps(placement[k1], placement[k2])

all_on_edge(placement) ==
    \A name \in {"USB_CONNECTOR", "MIKROBUS_CONNECTOR_1", "MIKROBUS_CONNECTOR_2"} :
        \/ placement[name].x = 0
        \/ placement[name].y = 0
        \/ placement[name].x + placement[name].w = BOARD_W
        \/ placement[name].y + placement[name].h = BOARD_H

is_parallel(placement) ==
    LET mb1 == placement["MIKROBUS_CONNECTOR_1"]
        mb2 == placement["MIKROBUS_CONNECTOR_2"]
    IN  /\ mb1.w = mb2.w
        /\ \/ (mb1.x = 0 /\ mb2.x + mb2.w = 50)
           \/ (mb1.x + mb1.w = 50 /\ mb2.x = 0)
           \/ (mb1.y = 0 /\ mb2.y + mb2.h = 50)
           \/ (mb1.y + mb1.h = 50 /\ mb2.y = 0)

\* dist <= PROXIMITY_RADIUS.  The squared doubled distance is an integer, the
\* double sqrt is correctly rounded and monotone, so the comparison is exact.
proximity_ok(placement) ==
    _distance_sq(_get_center(placement["CRYSTAL"]),
                 _get_center(placement["MICROCONTROLLER"]))
        <= (2 * PROXIMITY_RADIUS) * (2 * PROXIMITY_RADIUS)

\* com_x, com_y scaled by 2 * len(placement), relative to (25, 25):
\* 2n * (com - 25) = sum of doubled centres - 50n
com_offset(placement) ==
    LET n == Cardinality(DOMAIN placement)
    IN  <<SumCenters(placement, 1) - 50 * n,
          SumCenters(placement, 2) - 50 * n>>

\* The source divides the sums of the centres by len(placement) in doubles
\* (lines 75-76) and takes the distance to (25, 25) in doubles (line 77).  Off
\* the circle of radius CENTER_OF_MASS_RADIUS the comparison of line 78 agrees
\* with exact arithmetic.  On the circle the offset is a Pythagorean triple
\* (|ox|, |oy|, 4n); the rounded com_dist is 2.0 or a few ulps beside it, and
\* which one depends only on the triple in lowest terms (com - 25 is
\* ox / 2n, the same double for every multiple of the triple), not on the
\* signs nor on the order of the axes.  com_tie_passes lists the triples
\* <<p, q, h>> in lowest terms, 0 < p < q, for which the doubles of lines
\* 75-78 give com_dist <= 2.0; a triple not listed gives com_dist > 2.0
\* (e.g. <<3, 4, 5>>: com = (26.2, 26.6), com_dist = 2.0000000000000004).
\* The list is complete for h <= 11585.  h is odd and divides 4n, so it
\* divides n: these are the triples of every placement of at most 11585
\* components, and com_dist_ok has no value for a larger one, because
\* (4n)^2 then exceeds the 32-bit integers it is evaluated in.
com_tie_passes ==
    { <<11, 60, 61>>, <<12, 35, 37>>, <<13, 84, 85>>, <<15, 112, 113>>,
      <<16, 63, 65>>, <<20, 21, 29>>, <<20, 99, 101>>, <<21, 220, 221>>,
      <<23, 264, 265>>, <<25, 312, 313>>, <<28, 195, 197>>, <<31, 480, 481>>,
      <<32, 255, 257>>, <<33, 544, 545>>, <<36, 323, 325>>, <<39, 760, 761>>,
      <<40, 399, 401>>, <<44, 117, 125>>, <<44, 483, 485>>,
      <<45, 1012, 1013>>, <<47, 1104, 1105>>, <<48, 575, 577>>,
      <<49, 1200, 1201>>, <<52, 165, 173>>, <<52, 675, 677>>,
      <<53, 1404, 1405>>, <<55, 1512, 1513>>, <<56, 783, 785>>,
      <<57, 176, 185>>, <<57, 1624, 1625>>, <<59, 1740, 1741>>,
      <<60, 91, 109>>, <<60, 899, 901>>, <<63, 1984, 1985>>,
      <<64, 1023, 1025>>, <<65, 72, 97>>, <<65, 2112, 2113>>,
      <<67, 2244, 2245>>, <<68, 285, 293>>, <<69, 260, 269>>,
      <<69, 2380, 2381>>, <<75, 308, 317>>, <<75, 2812, 2813>>,
      <<76, 357, 365>>, <<79, 3120, 3121>>, <<80, 1599, 1601>>,
      <<81, 3280, 3281>>, <<83, 3444, 3445>>, <<84, 187, 205>>,
      <<84, 437, 445>>, <<87, 416, 425>>, <<88, 1935, 1937>>,
      <<92, 525, 533>>, <<93, 476, 485>>, <<95, 168, 193>>,
      <<95, 4512, 4513>>, <<96, 247, 265>>, <<96, 2303, 2305>>,
      <<97, 4704, 4705>>, <<99, 4900, 4901>>, <<100, 2499, 2501>>,
      <<104, 153, 185>>, <<104, 2703, 2705>>, <<105, 208, 233>>,
      <<105, 5512, 5513>>, <<108, 725, 733>>, <<109, 5940, 5941>>,
      <<111, 680, 689>>, <<111, 6160, 6161>>, <<112, 3135, 3137>>,
      <<116, 3363, 3365>>, <<119, 120, 169>>, <<120, 391, 409>>,
      <<123, 836, 845>>, <<124, 957, 965>>, <<124, 3843, 3845>>,
      <<125, 7812, 7813>>, <<127, 8064, 8065>>, <<128, 4095, 4097>>,
      <<129, 8320, 8321>>, <<131, 8580, 8581>>, <<132, 475, 493>>,
      <<132, 1085, 1093>>, <<132, 4355, 4357>>, <<133, 8844, 8845>>,
      <<135, 352, 377>>, <<136, 273, 305>>, <<136, 4623, 4625>>,
      <<140, 4899, 4901>>, <<141, 9940, 9941>>, <<144, 5183, 5185>>,
      <<147, 1196, 1205>>, <<147, 10804, 10805>>, <<148, 1365, 1373>>,
      <<152, 345, 377>>, <<152, 5775, 5777>>, <<156, 667, 685>>,
      <<156, 1517, 1525>>, <<156, 6083, 6085>>, <<159, 1400, 1409>>,
      <<160, 231, 281>>, <<160, 6399, 6401>>, <<164, 1677, 1685>>,
      <<164, 6723, 6725>>, <<165, 532, 557>>, <<165, 1508, 1517>>,
      <<168, 425, 457>>, <<172, 1845, 1853>>, <<172, 7395, 7397>>,
      <<175, 288, 337>>, <<177, 1736, 1745>>, <<180, 299, 349>>,
      <<180, 2021, 2029>>, <<180, 8099, 8101>>, <<184, 8463, 8465>>,
      <<188, 2205, 2213>>, <<189, 340, 389>>, <<192, 1015, 1033>>,
      <<195, 2108, 2117>>, <<196, 9603, 9605>>, <<200, 609, 641>>,
      <<200, 9999, 10001>>, <<203, 396, 445>>, <<204, 253, 325>>,
      <<205, 828, 853>>, <<207, 224, 305>>, <<208, 10815, 10817>>,
      <<212, 11235, 11237>>, <<219, 2660, 2669>>, <<220, 459, 509>>,
      <<220, 3021, 3029>>, <<225, 272, 353>>, <<228, 325, 397>>,
      <<228, 1435, 1453>>, <<228, 3245, 3253>>, <<231, 520, 569>>,
      <<232, 825, 857>>, <<240, 551, 601>>, <<240, 1591, 1609>>,
      <<248, 945, 977>>, <<249, 3440, 3449>>, <<252, 275, 373>>,
      <<252, 3965, 3973>>, <<255, 1288, 1313>>, <<255, 3608, 3617>>,
      <<259, 660, 709>>, <<260, 4221, 4229>>, <<261, 380, 461>>,
      <<264, 1073, 1105>>, <<265, 1392, 1417>>, <<267, 3956, 3965>>,
      <<273, 736, 785>>, <<276, 493, 565>>, <<276, 2107, 2125>>,
      <<276, 4757, 4765>>, <<280, 351, 449>>, <<280, 1209, 1241>>,
      <<284, 5037, 5045>>, <<285, 1612, 1637>>, <<285, 4508, 4517>>,
      <<291, 4700, 4709>>, <<292, 5325, 5333>>, <<295, 1728, 1753>>,
      <<296, 1353, 1385>>, <<297, 304, 425>>, <<300, 5621, 5629>>,
      <<301, 900, 949>>, <<305, 1848, 1873>>, <<308, 435, 533>>,
      <<308, 5925, 5933>>, <<309, 5300, 5309>>, <<312, 2695, 2713>>,
      <<315, 572, 653>>, <<315, 1972, 1997>>, <<319, 360, 481>>,
      <<332, 6885, 6893>>, <<333, 644, 725>>, <<335, 2232, 2257>>,
      <<336, 527, 625>>, <<336, 3127, 3145>>, <<340, 1131, 1181>>,
      <<348, 805, 877>>, <<348, 3355, 3373>>, <<348, 7565, 7573>>,
      <<360, 1271, 1321>>, <<360, 2009, 2041>>, <<363, 7316, 7325>>,
      <<364, 627, 725>>, <<364, 8277, 8285>>, <<365, 2652, 2677>>,
      <<368, 465, 593>>, <<371, 1380, 1429>>, <<372, 925, 997>>,
      <<372, 3835, 3853>>, <<375, 7808, 7817>>, <<376, 2193, 2225>>,
      <<380, 1419, 1469>>, <<384, 4087, 4105>>, <<385, 1488, 1537>>,
      <<388, 9405, 9413>>, <<393, 8576, 8585>>, <<395, 3108, 3133>>,
      <<396, 403, 565>>, <<396, 9797, 9805>>, <<399, 1600, 1649>>,
      <<405, 3268, 3293>>, <<407, 624, 745>>, <<408, 2585, 2617>>,
      <<413, 1716, 1765>>, <<415, 3432, 3457>>, <<420, 1739, 1789>>,
      <<423, 1064, 1145>>, <<424, 2793, 2825>>, <<427, 1836, 1885>>,
      <<428, 11445, 11453>>, <<429, 460, 629>>, <<429, 10220, 10229>>,
      <<435, 3772, 3797>>, <<435, 10508, 10517>>, <<440, 3009, 3041>>,
      <<441, 1160, 1241>>, <<444, 1333, 1405>>, <<444, 5467, 5485>>,
      <<445, 3948, 3973>>, <<448, 975, 1073>>, <<451, 780, 901>>,
      <<455, 528, 697>>, <<455, 4128, 4153>>, <<456, 3233, 3265>>,
      <<464, 777, 905>>, <<465, 4312, 4337>>, <<468, 595, 757>>,
      <<469, 2220, 2269>>, <<473, 864, 985>>, <<477, 1364, 1445>>,
      <<480, 2279, 2329>>, <<480, 6391, 6409>>, <<481, 600, 769>>,
      <<483, 2356, 2405>>, <<485, 4692, 4717>>, <<495, 4888, 4913>>,
      <<496, 897, 1025>>, <<497, 2496, 2545>>, <<504, 1247, 1345>>,
      <<505, 5088, 5113>>, <<511, 2640, 2689>>, <<515, 5292, 5317>>,
      <<520, 4209, 4241>>, <<525, 2788, 2837>>, <<528, 1025, 1153>>,
      <<528, 7735, 7753>>, <<535, 5712, 5737>>, <<540, 629, 829>>,
      <<552, 4745, 4777>>, <<552, 8455, 8473>>, <<553, 3096, 3145>>,
      <<564, 2173, 2245>>, <<580, 3339, 3389>>, <<581, 3420, 3469>>,
      <<583, 1344, 1465>>, <<585, 928, 1097>>, <<585, 2072, 2153>>,
      <<588, 2365, 2437>>, <<588, 9595, 9613>>, <<592, 1305, 1433>>,
      <<595, 7068, 7093>>, <<600, 5609, 5641>>, <<600, 9991, 10009>>,
      <<609, 3760, 3809>>, <<611, 1020, 1189>>, <<615, 728, 953>>,
      <<615, 7552, 7577>>, <<616, 663, 905>>, <<616, 1887, 1985>>,
      <<616, 5913, 5945>>, <<620, 861, 1061>>, <<624, 10807, 10825>>,
      <<627, 1564, 1685>>, <<635, 8052, 8077>>, <<636, 2773, 2845>>,
      <<640, 4071, 4121>>, <<644, 2067, 2165>>, <<645, 8308, 8333>>,
      <<649, 1680, 1801>>, <<655, 8568, 8593>>, <<656, 1617, 1745>>,
      <<660, 989, 1189>>, <<660, 2989, 3061>>, <<660, 4331, 4381>>,
      <<663, 1216, 1385>>, <<664, 6873, 6905>>, <<665, 8832, 8857>>,
      <<672, 2255, 2353>>, <<679, 4680, 4729>>, <<680, 4599, 4649>>,
      <<680, 7209, 7241>>, <<685, 9372, 9397>>, <<688, 1785, 1913>>,
      <<693, 4876, 4925>>, <<695, 9648, 9673>>, <<696, 697, 985>>,
      <<700, 2451, 2549>>, <<705, 9928, 9953>>, <<708, 3445, 3517>>,
      <<715, 1428, 1597>>, <<720, 1519, 1681>>, <<720, 1961, 2089>>,
      <<720, 5159, 5209>>, <<721, 5280, 5329>>, <<728, 2655, 2753>>,
      <<728, 8265, 8297>>, <<735, 10792, 10817>>, <<737, 2184, 2305>>,
      <<740, 1269, 1469>>, <<741, 1540, 1709>>, <<744, 817, 1105>>,
      <<744, 8633, 8665>>, <<747, 3404, 3485>>, <<748, 1035, 1277>>,
      <<759, 2320, 2441>>, <<760, 5751, 5801>>, <<760, 9009, 9041>>,
      <<763, 5916, 5965>>, <<765, 3572, 3653>>, <<767, 1656, 1825>>,
      <<780, 1421, 1621>>, <<780, 4189, 4261>>, <<780, 6059, 6109>>,
      <<781, 2460, 2581>>, <<784, 2337, 2465>>, <<792, 1855, 2017>>,
      <<792, 9785, 9817>>, <<795, 1292, 1517>>, <<799, 960, 1249>>,
      <<801, 3920, 4001>>, <<803, 2604, 2725>>, <<804, 4453, 4525>>,
      <<819, 1900, 2069>>, <<819, 4100, 4181>>, <<819, 6820, 6869>>,
      <<820, 6699, 6749>>, <<825, 2752, 2873>>, <<828, 2035, 2197>>,
      <<833, 1056, 1345>>, <<840, 3551, 3649>>, <<840, 11009, 11041>>,
      <<852, 5005, 5077>>, <<855, 4472, 4553>>, <<860, 1749, 1949>>,
      <<869, 3060, 3181>>, <<871, 2160, 2329>>, <<873, 4664, 4745>>,
      <<875, 7788, 7837>>, <<876, 5293, 5365>>, <<880, 1479, 1721>>,
      <<880, 7719, 7769>>, <<884, 987, 1325>>, <<888, 1225, 1513>>,
      <<889, 8040, 8089>>, <<893, 924, 1285>>, <<896, 4047, 4145>>,
      <<897, 2296, 2465>>, <<900, 2419, 2581>>, <<901, 1260, 1549>>,
      <<903, 8296, 8345>>, <<909, 5060, 5141>>, <<913, 3384, 3505>>,
      <<915, 1748, 1973>>, <<917, 8556, 8605>>, <<920, 8439, 8489>>,
      <<923, 2436, 2605>>, <<924, 1643, 1885>>, <<924, 5893, 5965>>,
      <<931, 1020, 1381>>, <<935, 1368, 1657>>, <<935, 3552, 3673>>,
      <<936, 1127, 1465>>, <<940, 2109, 2309>>, <<940, 8811, 8861>>,
      <<948, 6205, 6277>>, <<952, 4575, 4673>>, <<957, 3724, 3845>>,
      <<959, 9360, 9409>>, <<960, 9191, 9241>>, <<969, 1120, 1481>>,
      <<969, 1480, 1769>>, <<975, 2728, 2897>>, <<976, 3657, 3785>>,
      <<980, 2301, 2501>>, <<980, 9579, 9629>>, <<981, 5900, 5981>>,
      <<984, 1537, 1825>>, <<987, 9916, 9965>>, <<988, 1275, 1613>>,
      <<996, 6853, 6925>>, <<1001, 2880, 3049>>, <<1001, 10200, 10249>>,
      <<1007, 1224, 1585>>, <<1008, 3055, 3217>>, <<1008, 3905, 4033>>,
      <<1008, 5135, 5233>>, <<1012, 1995, 2237>>, <<1015, 10488, 10537>>,
      <<1020, 2501, 2701>>, <<1023, 4264, 4385>>, <<1027, 3036, 3205>>,
      <<1032, 1705, 1993>>, <<1035, 6572, 6653>>, <<1037, 1716, 2005>>,
      <<1040, 1431, 1769>>, <<1040, 10791, 10841>>, <<1043, 11076, 11125>>,
      <<1044, 3283, 3445>>, <<1045, 4452, 4573>>, <<1056, 2183, 2425>>,
      <<1057, 11376, 11425>>, <<1060, 2709, 2909>>, <<1060, 11211, 11261>>,
      <<1064, 5727, 5825>>, <<1067, 4644, 4765>>, <<1071, 1840, 2129>>,
      <<1071, 7040, 7121>>, <<1079, 3360, 3529>>, <<1089, 7280, 7361>>,
      <<1092, 6035, 6133>>, <<1092, 8245, 8317>>, <<1095, 2552, 2777>>,
      <<1100, 2379, 2621>>, <<1104, 4697, 4825>>, <<1113, 1184, 1625>>,
      <<1121, 1560, 1921>>, <<1125, 7772, 7853>>, <<1128, 2065, 2353>>,
      <<1131, 3700, 3869>>, <<1133, 5244, 5365>>, <<1136, 4977, 5105>>,
      <<1140, 1219, 1669>>, <<1140, 8989, 9061>>, <<1143, 8024, 8105>>,
      <<1144, 1767, 2105>>, <<1148, 6675, 6773>>, <<1155, 2852, 3077>>,
      <<1155, 5452, 5573>>, <<1157, 3876, 4045>>, <<1159, 1680, 2041>>,
      <<1164, 9373, 9445>>, <<1176, 2257, 2545>>, <<1177, 5664, 5785>>,
      <<1188, 2795, 3037>>, <<1196, 1947, 2285>>, <<1197, 1804, 2165>>,
      <<1200, 5561, 5689>>, <<1204, 1653, 2045>>, <<1207, 2376, 2665>>,
      <<1212, 10165, 10237>>, <<1221, 6100, 6221>>, <<1232, 5865, 5993>>,
      <<1232, 7695, 7793>>, <<1233, 9344, 9425>>, <<1235, 1932, 2293>>,
      <<1235, 4428, 4597>>, <<1236, 10573, 10645>>, <<1241, 2520, 2809>>,
      <<1243, 6324, 6445>>, <<1248, 1265, 1777>>, <<1251, 9620, 9701>>,
      <<1260, 1829, 2221>>, <<1260, 3869, 4069>>, <<1260, 4819, 4981>>,
      <<1260, 8051, 8149>>, <<1261, 4620, 4789>>, <<1264, 6177, 6305>>,
      <<1272, 2665, 2953>>, <<1276, 3243, 3485>>, <<1284, 11413, 11485>>,
      <<1287, 6784, 6905>>, <<1287, 10184, 10265>>, <<1288, 8415, 8513>>,
      <<1300, 2331, 2669>>, <<1305, 10472, 10553>>, <<1312, 1425, 1937>>,
      <<1313, 5016, 5185>>, <<1320, 1711, 2161>>, <<1320, 2881, 3169>>,
      <<1328, 6825, 6953>>, <<1332, 5395, 5557>>, <<1335, 3848, 4073>>,
      <<1339, 5220, 5389>>, <<1343, 2976, 3265>>, <<1344, 9167, 9265>>,
      <<1349, 2340, 2701>>, <<1353, 7504, 7625>>, <<1359, 11360, 11441>>,
      <<1360, 7161, 7289>>, <<1364, 3723, 3965>>, <<1365, 4028, 4253>>,
      <<1365, 5428, 5597>>, <<1368, 5695, 5857>>, <<1380, 1891, 2341>>,
      <<1380, 4661, 4861>>, <<1391, 5640, 5809>>, <<1392, 7505, 7633>>,
      <<1400, 9951, 10049>>, <<1407, 2024, 2465>>, <<1408, 3975, 4217>>,
      <<1411, 3300, 3589>>, <<1417, 5856, 6025>>, <<1420, 4941, 5141>>,
      <<1424, 7857, 7985>>, <<1425, 2632, 2993>>, <<1428, 1475, 2053>>,
      <<1428, 10355, 10453>>, <<1440, 6319, 6481>>, <<1441, 8520, 8641>>,
      <<1449, 1720, 2249>>, <<1455, 4592, 4817>>, <<1456, 10767, 10865>>,
      <<1460, 5229, 5429>>, <<1463, 2784, 3145>>, <<1463, 8784, 8905>>,
      <<1464, 3577, 3865>>, <<1469, 6300, 6469>>, <<1476, 6643, 6805>>,
      <<1484, 2613, 3005>>, <<1485, 9052, 9173>>, <<1491, 2300, 2741>>,
      <<1495, 1848, 2377>>, <<1495, 6528, 6697>>, <<1496, 1647, 2225>>,
      <<1496, 4503, 4745>>, <<1501, 2940, 3301>>, <<1504, 1953, 2465>>,
      <<1508, 3195, 3533>>, <<1513, 3816, 4105>>, <<1515, 4988, 5213>>,
      <<1525, 1548, 2173>>, <<1529, 9600, 9721>>, <<1533, 2444, 2885>>,
      <<1539, 3100, 3461>>, <<1540, 4779, 5021>>, <<1540, 5829, 6029>>,
      <<1547, 3996, 4285>>, <<1560, 2479, 2929>>, <<1560, 3431, 3769>>,
      <<1564, 1827, 2405>>, <<1575, 1672, 2297>>, <<1577, 3264, 3625>>,
      <<1580, 6141, 6341>>, <<1581, 4180, 4469>>, <<1584, 5063, 5305>>,
      <<1584, 7663, 7825>>, <<1584, 9737, 9865>>, <<1595, 10452, 10573>>,
      <<1599, 7480, 7649>>, <<1612, 3675, 4013>>, <<1615, 4368, 4657>>,
      <<1616, 10137, 10265>>, <<1617, 10744, 10865>>, <<1632, 2015, 2593>>,
      <<1632, 2345, 2857>>, <<1633, 2256, 2785>>, <<1639, 11040, 11161>>,
      <<1648, 10545, 10673>>, <<1649, 4560, 4849>>, <<1652, 3285, 3677>>,
      <<1660, 6789, 6989>>, <<1664, 3927, 4265>>, <<1672, 5655, 5897>>,
      <<1675, 1932, 2557>>, <<1677, 8236, 8405>>, <<1679, 2400, 2929>>,
      <<1680, 2911, 3361>>, <<1680, 10961, 11089>>, <<1683, 4756, 5045>>,
      <<1692, 8755, 8917>>, <<1695, 6272, 6497>>, <<1696, 2553, 3065>>,
      <<1700, 2211, 2789>>, <<1703, 8496, 8665>>, <<1704, 4897, 5185>>,
      <<1712, 11385, 11513>>, <<1716, 5963, 6205>>, <<1725, 2548, 3077>>,
      <<1740, 7469, 7669>>, <<1743, 3224, 3665>>, <<1748, 1755, 2477>>,
      <<1752, 5185, 5473>>, <<1755, 9028, 9197>>, <<1760, 2769, 3281>>,
      <<1760, 6279, 6521>>, <<1764, 2077, 2725>>, <<1764, 9523, 9685>>,
      <<1767, 4144, 4505>>, <<1768, 2415, 2993>>, <<1771, 2700, 3229>>,
      <<1775, 2208, 2833>>, <<1781, 9300, 9469>>, <<1785, 5368, 5657>>,
      <<1785, 6968, 7193>>, <<1800, 9919, 10081>>, <<1820, 8181, 8381>>,
      <<1824, 2993, 3505>>, <<1833, 9856, 10025>>, <<1843, 4524, 4885>>,
      <<1848, 6935, 7177>>, <<1853, 5796, 6085>>, <<1860, 3619, 4069>>,
      <<1860, 8549, 8749>>, <<1872, 10735, 10897>>, <<1876, 4293, 4685>>,
      <<1881, 4720, 5081>>, <<1885, 10428, 10597>>, <<1896, 6097, 6385>>,
      <<1904, 2847, 3425>>, <<1905, 7952, 8177>>, <<1909, 3180, 3709>>,
      <<1925, 2652, 3277>>, <<1932, 4565, 4957>>, <<1940, 9309, 9509>>,
      <<1952, 3465, 3977>>, <<1955, 3348, 3877>>, <<1957, 5124, 5485>>,
      <<1960, 2001, 2801>>, <<1971, 2300, 3029>>, <<1976, 2343, 3065>>,
      <<1980, 2701, 3349>>, <<1980, 9701, 9901>>, <<1995, 4292, 4733>>,
      <<1995, 5332, 5693>>, <<1995, 8732, 8957>>, <<2020, 10101, 10301>>,
      <<2024, 8343, 8585>>, <<2025, 2968, 3593>>, <<2033, 5544, 5905>>,
      <<2037, 4484, 4925>>, <<2040, 3311, 3889>>, <<2040, 7081, 7369>>,
      <<2044, 5133, 5525>>, <<2047, 3696, 4225>>, <<2052, 2555, 3277>>,
      <<2055, 9272, 9497>>, <<2057, 7176, 7465>>, <<2068, 8715, 8957>>,
      <<2071, 5760, 6121>>, <<2075, 3132, 3757>>, <<2080, 3969, 4481>>,
      <<2085, 9548, 9773>>, <<2091, 7420, 7709>>, <<2093, 3876, 4405>>,
      <<2100, 5429, 5821>>, <<2108, 3555, 4133>>, <<2109, 5980, 6341>>,
      <<2112, 9095, 9337>>, <<2117, 2244, 3085>>, <<2120, 2409, 3209>>,
      <<2121, 4880, 5321>>, <<2124, 3157, 3805>>, <<2125, 7668, 7957>>,
      <<2128, 2775, 3497>>, <<2132, 6555, 6893>>, <<2133, 2756, 3485>>,
      <<2136, 7777, 8065>>, <<2139, 4060, 4589>>, <<2145, 10112, 10337>>,
      <<2163, 5084, 5525>>, <<2184, 2263, 3145>>, <<2185, 6432, 6793>>,
      <<2200, 9879, 10121>>, <<2208, 4505, 5017>>, <<2212, 6045, 6437>>,
      <<2220, 5251, 5701>>, <<2223, 6664, 7025>>, <<2227, 8436, 8725>>,
      <<2231, 4440, 4969>>, <<2233, 2544, 3385>>, <<2236, 7227, 7565>>,
      <<2241, 3080, 3809>>, <<2244, 4067, 4645>>, <<2247, 5504, 5945>>,
      <<2261, 6900, 7261>>, <<2265, 11288, 11513>>, <<2268, 6365, 6757>>,
      <<2272, 4785, 5297>>, <<2275, 3828, 4453>>, <<2277, 4636, 5165>>,
      <<2280, 2849, 3649>>, <<2280, 3239, 3961>>, <<2280, 5551, 6001>>,
      <<2280, 8881, 9169>>, <<2288, 7575, 7913>>, <<2295, 3248, 3977>>,
      <<2295, 8968, 9257>>, <<2299, 7140, 7501>>, <<2323, 4836, 5365>>,
      <<2325, 2332, 3293>>, <<2332, 11115, 11357>>, <<2336, 5073, 5585>>,
      <<2337, 7384, 7745>>, <<2340, 3901, 4549>>, <<2356, 3483, 4205>>,
      <<2363, 9516, 9805>>, <<2369, 5040, 5569>>, <<2373, 6164, 6605>>,
      <<2375, 7632, 7993>>, <<2380, 7029, 7421>>, <<2387, 2484, 3445>>,
      <<2392, 8295, 8633>>, <<2397, 9796, 10085>>, <<2400, 5369, 5881>>,
      <<2403, 3596, 4325>>, <<2407, 3024, 3865>>, <<2412, 4165, 4813>>,
      <<2415, 5248, 5777>>, <<2415, 6392, 6833>>, <<2431, 10080, 10369>>,
      <<2432, 3735, 4457>>, <<2436, 2923, 3805>>, <<2436, 7373, 7765>>,
      <<2448, 4895, 5473>>, <<2457, 3776, 4505>>, <<2461, 5460, 5989>>,
      <<2465, 10368, 10657>>, <<2472, 10465, 10753>>, <<2475, 4588, 5213>>,
      <<2489, 8400, 8761>>, <<2499, 10660, 10949>>, <<2508, 2765, 3733>>,
      <<2508, 3995, 4717>>, <<2516, 5187, 5765>>, <<2525, 4788, 5413>>,
      <<2528, 5985, 6497>>, <<2533, 10956, 11245>>, <<2541, 7100, 7541>>,
      <<2553, 5896, 6425>>, <<2556, 4717, 5365>>, <<2565, 4148, 4877>>,
      <<2565, 8932, 9293>>, <<2573, 2964, 3925>>, <<2575, 4992, 5617>>,
      <<2576, 2607, 3665>>, <<2580, 7171, 7621>>, <<2581, 3540, 4381>>,
      <<2584, 4263, 4985>>, <<2584, 5487, 6065>>, <<2604, 3403, 4285>>,
      <<2604, 8453, 8845>>, <<2625, 7592, 8033>>, <<2628, 5005, 5653>>,
      <<2635, 3132, 4093>>, <<2639, 3720, 4561>>, <<2640, 7519, 7969>>,
      <<2652, 10235, 10573>>, <<2656, 6633, 7145>>, <<2660, 4539, 5261>>,
      <<2667, 7844, 8285>>, <<2668, 2835, 3893>>, <<2675, 5412, 6037>>,
      <<2679, 9760, 10121>>, <<2680, 4089, 4889>>, <<2684, 3237, 4205>>,
      <<2688, 3655, 4537>>, <<2691, 6580, 7109>>, <<2697, 3904, 4745>>,
      <<2717, 10044, 10405>>, <<2720, 6111, 6689>>, <<2720, 6969, 7481>>,
      <<2725, 5628, 6253>>, <<2727, 4736, 5465>>, <<2736, 4823, 5545>>,
      <<2737, 6816, 7345>>, <<2755, 4092, 4933>>, <<2755, 10332, 10693>>,
      <<2756, 11067, 11405>>, <<2760, 4361, 5161>>, <<2760, 8239, 8689>>,
      <<2772, 3485, 4453>>, <<2772, 5605, 6253>>, <<2772, 9605, 9997>>,
      <<2783, 7056, 7585>>, <<2784, 7313, 7825>>, <<2805, 3068, 4157>>,
      <<2812, 5115, 5837>>, <<2821, 3660, 4621>>, <<2825, 6072, 6697>>,
      <<2829, 7300, 7829>>, <<2844, 5917, 6565>>, <<2852, 3315, 4373>>,
      <<2856, 4183, 5065>>, <<2856, 6767, 7345>>, <<2869, 11220, 11581>>,
      <<2871, 4480, 5321>>, <<2877, 9164, 9605>>, <<2884, 10413, 10805>>,
      <<2889, 5360, 6089>>, <<2912, 8025, 8537>>, <<2919, 9440, 9881>>,
      <<2924, 7107, 7685>>, <<2925, 6532, 7157>>, <<2929, 4680, 5521>>,
      <<2937, 3416, 4505>>, <<2944, 3567, 4625>>, <<2948, 4005, 4973>>,
      <<2964, 5723, 6445>>, <<2975, 6768, 7393>>, <<2976, 8393, 8905>>,
      <<2987, 4884, 5725>>, <<2992, 7455, 8033>>, <<3003, 3596, 4685>>,
      <<3003, 10004, 10445>>, <<3007, 4224, 5185>>, <<3036, 3827, 4885>>,
      <<3036, 4277, 5245>>, <<3040, 8769, 9281>>, <<3045, 3172, 4397>>,
      <<3045, 10292, 10733>>, <<3051, 6020, 6749>>, <<3059, 8580, 9109>>,
      <<3069, 4420, 5381>>, <<3075, 7252, 7877>>, <<3100, 3219, 4469>>,
      <<3103, 5304, 6145>>, <<3104, 9153, 9665>>, <<3108, 5035, 5917>>,
      <<3115, 3348, 4573>>, <<3116, 6363, 7085>>, <<3124, 4557, 5525>>,
      <<3128, 4095, 5153>>, <<3128, 8175, 8753>>, <<3131, 4620, 5581>>,
      <<3135, 3968, 5057>>, <<3151, 9120, 9649>>, <<3161, 5520, 6361>>,
      <<3180, 11011, 11461>>, <<3192, 5335, 6217>>, <<3201, 4160, 5249>>,
      <<3220, 4371, 5429>>, <<3225, 8008, 8633>>, <<3243, 9676, 10205>>,
      <<3255, 3712, 4937>>, <<3267, 6956, 7685>>, <<3276, 7957, 8605>>,
      <<3289, 9960, 10489>>, <<3296, 10353, 10865>>, <<3300, 5141, 6109>>,
      <<3312, 4655, 5713>>, <<3317, 5244, 6205>>, <<3325, 8532, 9157>>,
      <<3332, 9315, 9893>>, <<3333, 4556, 5645>>, <<3335, 6192, 7033>>,
      <<3360, 5959, 6841>>, <<3360, 10769, 11281>>, <<3367, 3456, 4825>>,
      <<3375, 7448, 8177>>, <<3379, 5460, 6421>>, <<3395, 4092, 5317>>,
      <<3399, 4760, 5849>>, <<3400, 3999, 5249>>, <<3404, 4947, 6005>>,
      <<3408, 4465, 5617>>, <<3420, 8701, 9349>>, <<3425, 9072, 9697>>,
      <<3427, 10836, 11365>>, <<3429, 7700, 8429>>, <<3441, 3640, 5009>>,
      <<3444, 6283, 7165>>, <<3451, 6660, 7501>>, <<3465, 4288, 5513>>,
      <<3476, 5757, 6725>>, <<3480, 7169, 7969>>, <<3484, 3813, 5165>>,
      <<3496, 8103, 8825>>, <<3504, 4753, 5905>>, <<3515, 3828, 5197>>,
      <<3531, 5180, 6269>>, <<3535, 4488, 5713>>, <<3536, 10527, 11105>>,
      <<3560, 7521, 8321>>, <<3564, 6077, 7045>>, <<3565, 6132, 7093>>,
      <<3572, 8475, 9197>>, <<3575, 9912, 10537>>, <<3588, 4085, 5437>>,
      <<3588, 5555, 6613>>, <<3589, 4020, 5389>>, <<3591, 8480, 9209>>,
      <<3597, 5396, 6485>>, <<3600, 4559, 5809>>, <<3605, 4692, 5917>>,
      <<3612, 6955, 7837>>, <<3627, 6364, 7325>>, <<3636, 9877, 10525>>,
      <<3640, 7881, 8681>>, <<3648, 8855, 9577>>, <<3652, 6405, 7373>>,
      <<3663, 4216, 5585>>, <<3672, 3895, 5353>>, <<3675, 10492, 11117>>,
      <<3680, 5871, 6929>>, <<3683, 7644, 8485>>, <<3696, 5353, 6505>>,
      <<3700, 4851, 6101>>, <<3708, 10285, 10933>>, <<3720, 8249, 9049>>,
      <<3724, 9243, 9965>>, <<3725, 10788, 11413>>, <<3729, 5840, 6929>>,
      <<3751, 6840, 7801>>, <<3753, 9296, 10025>>, <<3772, 6195, 7253>>,
      <<3783, 3944, 5465>>, <<3795, 6068, 7157>>, <<3796, 4653, 6005>>,
      <<3799, 8160, 9001>>, <<3800, 9639, 10361>>, <<3811, 4620, 5989>>,
      <<3861, 9860, 10589>>, <<3864, 3977, 5545>>, <<3864, 6527, 7585>>,
      <<3864, 8023, 8905>>, <<3875, 7332, 8293>>, <<3876, 10043, 10765>>,
      <<3880, 9009, 9809>>, <<3885, 5548, 6773>>, <<3900, 5459, 6709>>,
      <<3915, 8692, 9533>>, <<3915, 10148, 10877>>, <<3927, 6536, 7625>>,
      <<3952, 10455, 11177>>, <<3956, 6867, 7925>>, <<3959, 5040, 6409>>,
      <<3960, 9401, 10201>>, <<3976, 4257, 5825>>, <<3996, 4747, 6205>>,
      <<3999, 7840, 8801>>, <<4004, 5253, 6605>>, <<4004, 7797, 8765>>,
      <<4017, 4544, 6065>>, <<4023, 10736, 11465>>, <<4033, 5256, 6625>>,
      <<4088, 4545, 6113>>, <<4089, 9520, 10361>>, <<4092, 8165, 9133>>,
      <<4095, 6232, 7457>>, <<4100, 6099, 7349>>, <<4104, 5047, 6505>>,
      <<4120, 10209, 11009>>, <<4123, 8364, 9325>>, <<4125, 7268, 8357>>,
      <<4141, 4260, 5941>>, <<4147, 9804, 10645>>, <<4173, 4964, 6485>>,
      <<4181, 5700, 7069>>, <<4185, 8632, 9593>>, <<4191, 7520, 8609>>,
      <<4200, 6431, 7681>>, <<4247, 8904, 9865>>, <<4251, 5180, 6701>>,
      <<4255, 5928, 7297>>, <<4268, 8925, 9893>>, <<4272, 7345, 8497>>,
      <<4292, 4635, 6317>>, <<4300, 6771, 8021>>, <<4305, 4672, 6353>>,
      <<4305, 6952, 8177>>, <<4309, 9180, 10141>>, <<4320, 5671, 7129>>,
      <<4321, 10680, 11521>>, <<4323, 8036, 9125>>, <<4329, 6160, 7529>>,
      <<4368, 10375, 11257>>, <<4380, 4429, 6229>>, <<4387, 4884, 6565>>,
      <<4389, 8300, 9389>>, <<4400, 7119, 8369>>, <<4403, 6396, 7765>>,
      <<4407, 5624, 7145>>, <<4416, 8687, 9745>>, <<4420, 6549, 7901>>,
      <<4424, 5457, 7025>>, <<4477, 6636, 8005>>, <<4485, 5852, 7373>>,
      <<4495, 10032, 10993>>, <<4508, 9075, 10133>>, <<4515, 4588, 6437>>,
      <<4515, 7708, 8933>>, <<4521, 8840, 9929>>, <<4524, 5243, 6925>>,
      <<4532, 10125, 11093>>, <<4536, 5777, 7345>>, <<4551, 5320, 7001>>,
      <<4585, 7968, 9193>>, <<4587, 9116, 10205>>, <<4601, 4800, 6649>>,
      <<4619, 10620, 11581>>, <<4620, 5029, 6829>>, <<4620, 10541, 11509>>,
      <<4633, 5544, 7225>>, <<4640, 5559, 7241>>, <<4648, 6105, 7673>>,
      <<4656, 8833, 9985>>, <<4687, 5016, 6865>>, <<4712, 4815, 6737>>,
      <<4715, 5772, 7453>>, <<4740, 5341, 7141>>, <<4756, 5883, 7565>>,
      <<4773, 7636, 9005>>, <<4785, 9968, 11057>>, <<4795, 8772, 9997>>,
      <<4836, 5123, 7045>>, <<4836, 7973, 9325>>, <<4847, 7896, 9265>>,
      <<4848, 9625, 10777>>, <<4872, 6215, 7897>>, <<4879, 6240, 7921>>,
      <<4900, 8979, 10229>>, <<4905, 4928, 6953>>, <<4921, 8160, 9529>>,
      <<4935, 9328, 10553>>, <<4940, 8349, 9701>>, <<4945, 5688, 7537>>,
      <<4953, 7304, 8825>>, <<4960, 5439, 7361>>, <<4968, 7735, 9193>>,
      <<4984, 7137, 8705>>, <<4995, 8428, 9797>>, <<5005, 9612, 10837>>,
      <<5031, 5920, 7769>>, <<5044, 8733, 10085>>, <<5069, 8700, 10069>>,
      <<5076, 8107, 9565>>, <<5085, 5372, 7397>>, <<5100, 9779, 11029>>,
      <<5117, 6156, 8005>>, <<5125, 6972, 8653>>, <<5143, 8976, 10345>>,
      <<5148, 9125, 10477>>, <<5184, 5537, 7585>>, <<5207, 7224, 8905>>,
      <<5208, 6095, 8017>>, <<5252, 9525, 10877>>, <<5280, 5311, 7489>>,
      <<5289, 6640, 8489>>, <<5289, 7480, 9161>>, <<5312, 5865, 7913>>,
      <<5336, 7623, 9305>>, <<5340, 7021, 8821>>, <<5356, 9933, 11285>>,
      <<5365, 9828, 11197>>, <<5375, 6888, 8737>>, <<5400, 9271, 10729>>,
      <<5421, 8900, 10421>>, <<5432, 8625, 10193>>, <<5439, 10120, 11489>>,
      <<5440, 6201, 8249>>, <<5445, 6308, 8333>>, <<5452, 7995, 9677>>,
      <<5456, 6783, 8705>>, <<5460, 7381, 9181>>, <<5461, 7140, 8989>>,
      <<5499, 5740, 7949>>, <<5535, 8272, 9953>>, <<5544, 9017, 10585>>,
      <<5568, 6545, 8593>>, <<5568, 8375, 10057>>, <<5580, 7139, 9061>>,
      <<5593, 5976, 8185>>, <<5616, 10087, 11545>>, <<5633, 7656, 9505>>,
      <<5644, 5733, 8045>>, <<5656, 9417, 10985>>, <<5676, 6307, 8485>>,
      <<5684, 8763, 10445>>, <<5696, 6897, 8945>>, <<5699, 8820, 10501>>,
      <<5715, 7052, 9077>>, <<5768, 9825, 11393>>, <<5781, 9100, 10781>>,
      <<5800, 9159, 10841>>, <<5805, 8188, 10037>>, <<5820, 8509, 10309>>,
      <<5824, 7257, 9305>>, <<5863, 9384, 11065>>, <<5875, 6708, 8917>>,
      <<5895, 7568, 9593>>, <<5916, 6413, 8725>>, <<5929, 6120, 8521>>,
      <<5952, 7625, 9673>>, <<5952, 8255, 10177>>, <<5969, 6960, 9169>>,
      <<5977, 8736, 10585>>, <<5985, 7832, 9857>>, <<6027, 6364, 8765>>,
      <<6052, 6765, 9077>>, <<6063, 9016, 10865>>, <<6072, 7375, 9553>>,
      <<6076, 8643, 10565>>, <<6080, 8001, 10049>>, <<6149, 9300, 11149>>,
      <<6157, 7476, 9685>>, <<6165, 8372, 10397>>, <<6180, 9709, 11509>>,
      <<6188, 7125, 9437>>, <<6204, 7747, 9925>>, <<6235, 9588, 11437>>,
      <<6251, 7740, 9949>>, <<6321, 7120, 9521>>, <<6324, 7493, 9805>>,
      <<6345, 8008, 10217>>, <<6375, 6512, 9113>>, <<6419, 7380, 9781>>,
      <<6435, 9212, 11237>>, <<6439, 8280, 10489>>, <<6440, 7239, 9689>>,
      <<6460, 7869, 10181>>, <<6468, 8515, 10693>>, <<6477, 6764, 9365>>,
      <<6552, 6985, 9577>>, <<6580, 7611, 10061>>, <<6596, 8253, 10565>>,
      <<6615, 7912, 10313>>, <<6681, 7280, 9881>>, <<6713, 8184, 10585>>,
      <<6720, 7991, 10441>>, <<6721, 9120, 11329>>, <<6783, 7544, 10145>>,
      <<6837, 6916, 9725>>, <<6909, 8740, 11141>>, <<6987, 8084, 10685>>,
      <<7007, 9024, 11425>>, <<7049, 7440, 10249>>, <<7155, 7708, 10517>>,
      <<7261, 7980, 10789>>, <<7272, 8905, 11497>>, <<7293, 8924, 11525>>,
      <<7372, 7965, 10853>>, <<7524, 8357, 11245>>, <<7535, 7872, 10897>>,
      <<7645, 8148, 11173>>, <<7755, 8428, 11453>>, <<7760, 7809, 11009>>,
      <<7800, 8479, 11521>> }

RECURSIVE GCD(_, _)
GCD(a, b) == IF b = 0 THEN a ELSE GCD(b, a % b)

\* com_dist <= CENTER_OF_MASS_RADIUS for n components whose centre of mass
\* has the offset o of com_offset: in exact arithmetic
\* ox^2 + oy^2 <= (2n * 2)^2, and on the circle as the doubles decide.
com_dist_ok(n, o) ==
    LET ax == IF o[1] < 0 THEN -o[1] ELSE o[1]
        ay == IF o[2] < 0 THEN -o[2] ELSE o[2]
        r  == 2 * n * CENTER_OF_MASS_RADIUS
        d2 == ax * ax + ay * ay
        g  == GCD(GCD(ax, ay), r)
        lo == IF ax < ay THEN ax ELSE ay
        hi == IF ax < ay THEN ay ELSE ax
    IN  \/ d2 < r * r
        \/ /\ d2 = r * r
           /\ \/ lo = 0
              \/ <<lo \div g, hi \div g, r \div g>> \in com_tie_passes

balance_ok(placement) ==
    com_dist_ok(Cardinality(DOMAIN placement), com_offset(placement))

\* the if/elif chain of lines 84-87 with the left/right edges tested first
zone_left_right_first(usb) ==
    LET c == _get_center(usb)
    IN  IF usb.x = 0
        THEN [x |-> 0, y |-> c[2] - KEEPOUT_ZONE_W,
              w |-> 2 * KEEPOUT_ZONE_H, h |-> 2 * KEEPOUT_ZONE_W]
        ELSE IF usb.x + usb.w = 50
        THEN [x |-> 2 * (50 - KEEPOUT_ZONE_H), y |-> c[2] - KEEPOUT_ZONE_W,
              w |-> 2 * KEEPOUT_ZONE_H, h |-> 2 * KEEPOUT_ZONE_W]
        ELSE IF usb.y = 0
        THEN [x |-> c[1] - KEEPOUT_ZONE_W, y |-> 0,
              w |-> 2 * KEEPOUT_ZONE_W, h |-> 2 * KEEPOUT_ZONE_H]
        ELSE [x |-> c[1] - KEEPOUT_ZONE_W, y |-> 2 * (50 - KEEPOUT_ZONE_H),
              w |-> 2 * KEEPOUT_ZONE_W, h |-> 2 * KEEPOUT_ZONE_H]

\* zone of lines 81-87, all four fields doubled
\* (usb_cx - zone_w / 2 doubled is 2 * usb_cx - zone_w)
zone(usb) ==
    LET c == _get_center(usb)
    IN  IF usb.y = 0
        THEN [x |-> c[1] - KEEPOUT_ZONE_W, y |-> 0,
              w |-> 2 * KEEPOUT_ZONE_W, h |-> 2 * KEEPOUT_ZONE_H]
        ELSE IF usb.y + usb.h = 50
        THEN [x |-> c[1] - KEEPOUT_ZONE_W, y |-> 2 * (50 - KEEPOUT_ZONE_H),
              w |-> 2 * KEEPOUT_ZONE_W, h |-> 2 * KEEPOUT_ZONE_H]
        ELSE IF usb.x = 0
        THEN [x |-> 0, y |-> c[2] - KEEPOUT_ZONE_W,
              w |-> 2 * KEEPOUT_ZONE_H, h |-> 2 * KEEPOUT_ZONE_W]
        ELSE [x |-> 2 * (50 - KEEPOUT_ZONE_H), y |-> c[2] - KEEPOUT_ZONE_W,
              w |-> 2 * KEEPOUT_ZONE_H, h |-> 2 * KEEPOUT_ZONE_W]

\* ccw(A, B, C); homogeneous of degree 2, so doubled points give the same sign
ccw(A, B, C) ==
    (C[2] - A[2]) * (B[1] - A[1]) > (B[2] - A[2]) * (C[1] - A[1])

intersect(A, B, C, D) ==
    ccw(A, C, D) # ccw(B, C, D) /\ ccw(A, B, C) # ccw(A, B, D)

\* the four tests of line 92 with the corners paired across the zone
\* (the two diagonals tl-br and tr-bl instead of the four sides)
intersects_diagonals(p1, p2, z) ==
    LET tl == <<z.x, z.y>>
        tr == <<z.x + z.w, z.y>>
        bl == <<z.x, z.y + z.h>>
        br == <<z.x + z.w, z.y + z.h>>
    IN  \/ intersect(p1, p2, tl, br)
        \/ intersect(p1, p2, tr, bl)
        \/ intersect(p1, p2, br, tl)
        \/ intersect(p1, p2, bl, tr)

\* lines 91-92: the segment p1-p2 against the four sides of the zone
intersects(p1, p2, z) ==
    LET tl == <<z.x, z.y>>
        tr == <<z.x + z.w, z.y>>
        bl == <<z.x, z.y + z.h>>
        br == <<z.x + z.w, z.y + z.h>>
    IN  \/ intersect(p1, p2, tl, tr)
        \/ intersect(p1, p2, tr, br)
        \/ intersect(p1, p2, br, bl)
        \/ intersect(p1, p2, bl, tl)

keepout_ok(placement) ==
    ~ intersects(_get_center(placement["CRYSTAL"]),
                 _get_center(placement["MICROCONTROLLER"]),
                 zone(placement["USB_CONNECTOR"]))

RuleNames ==
    {"Boundary Constraint", "No Overlapping", "Edge Placement",
     "Parallel Placement", "Proximity Constraint", "Global Balance",
     "Keep-Out Zone"}

\* the results dictionary of validate_placement, once the key check passed
results(placement) ==
    [rule \in RuleNames |->
        CASE rule = "Boundary Constraint"  -> all_in_bounds(placement)
          [] rule = "No Overlapping"       -> ~ overlap_found(placement)
          [] rule = "Edge Placement"       -> all_on_edge(placement)
          [] rule = "Parallel Placement"   -> is_parallel(placement)
          [] rule = "Proximity Constraint" -> proximity_ok(placement)
          [] rule = "Global Balance"       -> balance_ok(placement)
          [] rule = "Keep-Out Zone"        -> keepout_ok(placement)]

\* all(res[0] for res in results.values()) written as any(...)
any_valid(res) == \E rule \in DOMAIN res : res[rule]

all_valid(res) == \A rule \in DOMAIN res : res[rule]

\* validate_placement(placement): what it returns (valid), whether it took
\* the early return of lines 33-35 (missing), the rules it evaluated and the
\* keep-out zone it derived
validate_placement(placement) ==
    IF ~ (\A key \in required_keys : key \in DOMAIN placement)
    THEN [called |-> TRUE, missing |-> TRUE, results |-> EmptyMap,
          zone |-> EmptyMap, valid |-> FALSE]
    ELSE LET res == results(placement)
         IN  [called |-> TRUE, missing |-> FALSE, results |-> res,
              zone |-> zone(placement["USB_CONNECTOR"]),
              valid |-> all_valid(res)]

NoReport ==
    [called |-> FALSE, missing |-> FALSE, results |-> EmptyMap,
     zone |-> EmptyMap, valid |-> FALSE]

\* ------------------------------------------------------------------------
\* solver.py
\* ------------------------------------------------------------------------
USB_SIZE == 5
MICROCONTROLLER_SIZE == 5
CRYSTAL_SIZE == 5
MIKROBUS_W == 5
MIKROBUS_H == 15
ATTEMPTS == 100

COMPONENTS_SPECS ==
    [name \in required_keys |->
        CASE name = "USB_CONNECTOR"        -> <<USB_SIZE, USB_SIZE>>
          [] name = "MICROCONTROLLER"      -> <<MICROCONTROLLER_SIZE, MICROCONTROLLER_SIZE>>
          [] name = "CRYSTAL"              -> <<CRYSTAL_SIZE, CRYSTAL_SIZE>>
          [] name = "MIKROBUS_CONNECTOR_1" -> <<MIKROBUS_W, MIKROBUS_H>>
          [] name = "MIKROBUS_CONNECTOR_2" -> <<MIKROBUS_W, MIKROBUS_H>>]

\* get_center_from_pos without the swap of line 23
get_center_from_pos_unrotated(name, pos) ==
    LET size == COMPONENTS_SPECS[name]
    IN  <<2 * pos[1] + size[1], 2 * pos[2] + size[2]>>

\* get_center_from_pos(name, pos), doubled; pos = <<x, y, rot>>
get_center_from_pos(name, pos) ==
    LET size == COMPONENTS_SPECS[name]
        w == IF pos[3] = 90 THEN size[2] ELSE size[1]
        h == IF pos[3] = 90 THEN size[1] ELSE size[2]
    IN  <<2 * pos[1] + w, 2 * pos[2] + h>>

_convert_to_util_format(internal_placement) ==
    [name \in DOMAIN internal_placement |->
        LET pos  == internal_placement[name]
            size == COMPONENTS_SPECS[name]
        IN  [x |-> pos[1], y |-> pos[2],
             w |-> IF pos[3] = 90 THEN size[2] ELSE size[1],
             h |-> IF pos[3] = 90 THEN size[1] ELSE size[2]]]

\* edge_configs before the shuffle
EdgeConfigs == {<<"v", "top">>, <<"v", "bottom">>, <<"h", "left">>, <<"h", "right">>}

\* position of a configuration in the list of lines 43-46
ConfigIndex(c) ==
    CASE c = <<"v", "top">>    -> 0
      [] c = <<"v", "bottom">> -> 1
      [] c = <<"h", "left">>   -> 2
      [] c = <<"h", "right">>  -> 3

\* random.shuffle(edge_configs): any order of the four
Shuffles ==
    {s \in [1..4 -> EdgeConfigs] : \A a, b \in 1..4 : a # b => s[a] # s[b]}

\* lines 56-66 with MIKROBUS_CONNECTOR_2 offset by the wrong side length
\* (50 - rh for 'v', 50 - rw for 'h')
place_mikrobus_swapped(mb_orientation, d1, d2) ==
    IF mb_orientation = "v"
    THEN ("MIKROBUS_CONNECTOR_1" :> <<0, d1, 90>>)
           @@ ("MIKROBUS_CONNECTOR_2" :> <<50 - MIKROBUS_W, d2, 90>>)
    ELSE ("MIKROBUS_CONNECTOR_1" :> <<d1, 0, 0>>)
           @@ ("MIKROBUS_CONNECTOR_2" :> <<d2, 50 - MIKROBUS_W, 0>>)

\* lines 56-66: rw, rh are the rotated width and height; d1, d2 the two
\* random.randint draws
place_mikrobus(mb_orientation, d1, d2) ==
    IF mb_orientation = "v"
    THEN ("MIKROBUS_CONNECTOR_1" :> <<0, d1, 90>>)
           @@ ("MIKROBUS_CONNECTOR_2" :> <<50 - MIKROBUS_H, d2, 90>>)
    ELSE ("MIKROBUS_CONNECTOR_1" :> <<d1, 0, 0>>)
           @@ ("MIKROBUS_CONNECTOR_2" :> <<d2, 50 - MIKROBUS_H, 0>>)

\* the upper end of both randint ranges: 50 - rh for 'v', 50 - rw for 'h'
mikrobus_draw_max(mb_orientation) == 50 - MIKROBUS_W

\* lines 69-73: du is the random.randint draw, in 0 .. 50 - usb_w (or usb_h)
place_usb(usb_edge, du) ==
    "USB_CONNECTOR" :>
        (CASE usb_edge = "top"    -> <<du, 0, 0>>
           [] usb_edge = "bottom" -> <<du, 50 - USB_SIZE, 0>>
           [] usb_edge = "left"   -> <<0, du, 0>>
           [] OTHER               -> <<50 - USB_SIZE, du, 0>>)

usb_draw_max == 50 - USB_SIZE

\* lines 77-89 in quarter units: target_center = (125 - edge_com) / 2, so
\* 4 * target_center = 250 - 2 * edge_com
target_center(positions) ==
    LET edge_com_x == get_center_from_pos("USB_CONNECTOR", positions["USB_CONNECTOR"])[1]
                    + get_center_from_pos("MIKROBUS_CONNECTOR_1", positions["MIKROBUS_CONNECTOR_1"])[1]
                    + get_center_from_pos("MIKROBUS_CONNECTOR_2", positions["MIKROBUS_CONNECTOR_2"])[1]
        edge_com_y == get_center_from_pos("USB_CONNECTOR", positions["USB_CONNECTOR"])[2]
                    + get_center_from_pos("MIKROBUS_CONNECTOR_1", positions["MIKROBUS_CONNECTOR_1"])[2]
                    + get_center_from_pos("MIKROBUS_CONNECTOR_2", positions["MIKROBUS_CONNECTOR_2"])[2]
    IN  <<2 * 125 - edge_com_x, 2 * 125 - edge_com_y>>

\* Python's int() on a value given in quarter units: truncation toward zero
int(q4) == IF q4 >= 0 THEN q4 \div 4 ELSE -((-q4) \div 4)

\* lines 97-100: dx4, dy4 are the two random.uniform(-5, 5) draws, times 4
place_microcontroller(positions, dx4, dy4) ==
    LET t == target_center(positions)
    IN  <<int(t[1] - 2 * MICROCONTROLLER_SIZE + dx4),
          int(t[2] - 2 * MICROCONTROLLER_SIZE + dy4), 0>>

\* lines 104-109: (ox4, oy4) is (dist * cos(angle), dist * sin(angle)), times 4
place_crystal(mc_pos, ox4, oy4) ==
    LET mc_center == get_center_from_pos("MICROCONTROLLER", mc_pos)
    IN  <<int(2 * mc_center[1] + ox4 - 2 * CRYSTAL_SIZE),
          int(2 * mc_center[2] + oy4 - 2 * CRYSTAL_SIZE), 0>>

\* time.time() - start_time < VALIDATION_TIME_LIMIT - 0.2, in tenths of a second
Deadline == 10 * VALIDATION_TIME_LIMIT - 2

\* ------------------------------------------------------------------------
\* Bounds of the model
\* ------------------------------------------------------------------------
\* random.randint draws of the connectors: every ConnStride-th value
ConnStride == 45
\* random.uniform(-5, 5) draws, in quarter units: every JitterStride-th value
JitterStride == 41
\* dist * cos(angle), dist * sin(angle), in quarter units, per axis
OffsetStride == 31
\* the clock advances TickStep tenths of a second at a time, up to MaxClock
TickStep == 9
MaxClock == 20

\* the shuffles drawn: every ShuffleStride-th order, counted lexicographically
ShuffleStride == 6

Factorial(n) == CASE n = 0 -> 1 [] n = 1 -> 1 [] n = 2 -> 2 [] n = 3 -> 6

\* lexicographic rank of an order of the four configurations
ShuffleRank(s) ==
    LET Smaller(k) == Cardinality({j \in (k + 1)..4 :
                                     ConfigIndex(s[j]) < ConfigIndex(s[k])})
    IN  Smaller(1) * Factorial(3) + Smaller(2) * Factorial(2)
          + Smaller(3) * Factorial(1)

ShuffleDraws == {s \in Shuffles : ShuffleRank(s) % ShuffleStride = 0}

Samples(lo, hi, stride) == {v \in lo..hi : (v - lo) % stride = 0}

ConnDraws(max) == Samples(0, max, ConnStride)

JitterDraws == Samples(-4 * 5, 4 * 5, JitterStride)

OffsetDraws ==
    {o \in Samples(-4 * PROXIMITY_RADIUS, 4 * PROXIMITY_RADIUS, OffsetStride)
           \X Samples(-4 * PROXIMITY_RADIUS, 4 * PROXIMITY_RADIUS, OffsetStride) :
        o[1] * o[1] + o[2] * o[2]
            <= (4 * PROXIMITY_RADIUS) * (4 * PROXIMITY_RADIUS)}

\* ------------------------------------------------------------------------
\* State
\* ------------------------------------------------------------------------
VARIABLES
    pc,            \* where find_placement is: "start", "while", "for", "done"
                   \* ("idle" when it is not running)
    clock,         \* time.time(), tenths of a second
    start_time,    \* find_placement: start_time
    edge_configs,  \* find_placement: the shuffled list
    cfg,           \* index of the for loop of line 49 into edge_configs
    positions,     \* find_placement: positions
    i,             \* the for loop of line 95
    result,        \* "running", "None" or "positions" (the dictionary returned)
    tried,         \* history: configurations with a validated candidate
    late_call,     \* history: a validation started at or after the deadline
    placement,     \* argument of the last validate_placement call
    report,        \* what that call returned
    edits,         \* caller-side edits of placement made so far
    points,        \* arguments of the last intersect call
    hit            \* what that call returned

vars == <<pc, clock, start_time, edge_configs, cfg, positions, i, result,
          tried, late_call, placement, report, edits, points, hit>>

Init ==
    /\ pc = "start"
    /\ clock = 0
    /\ start_time = 0
    /\ edge_configs = <<>>
    /\ cfg = 0
    /\ positions = EmptyMap
    /\ i = 0
    /\ result = "running"
    /\ tried = {}
    /\ late_call = FALSE
    /\ placement = EmptyMap
    /\ report = NoReport
    /\ edits = 0
    /\ points = <<>>
    /\ hit = FALSE

\* ------------------------------------------------------------------------
\* find_placement
\* ------------------------------------------------------------------------
\* the guard of the while loop, line 52, with <= for <
within_deadline_inclusive == clock - start_time <= Deadline

\* the guard of the while loop, line 52
within_deadline == clock - start_time < Deadline

\* lines 40-49: read the clock, shuffle, enter the loop over configurations
Start ==
    /\ pc = "start"
    /\ start_time' = clock
    /\ \E s \in ShuffleDraws : edge_configs' = s
    /\ cfg' = 1
    /\ pc' = "while"
    /\ UNCHANGED <<clock, positions, i, result, tried, late_call, placement,
                   report, edits, points, hit>>

\* lines 52-93: the while guard holds; draw the three connectors
PlaceConnectors ==
    /\ pc = "while"
    /\ cfg <= 4
    /\ within_deadline
    /\ LET mb_orientation == edge_configs[cfg][1]
           usb_edge == edge_configs[cfg][2]
       IN  \E d1, d2 \in ConnDraws(mikrobus_draw_max(mb_orientation)) :
           \E du \in ConnDraws(usb_draw_max) :
               positions' = place_mikrobus(mb_orientation, d1, d2)
                              @@ place_usb(usb_edge, du)
    /\ i' = 0
    /\ pc' = "for"
    /\ UNCHANGED <<clock, start_time, edge_configs, cfg, result, tried,
                   late_call, placement, report, edits, points, hit>>

\* line 52 fails: the while loop ends, the for loop of line 49 moves on
NextConfig ==
    /\ pc = "while"
    /\ cfg <= 4
    /\ ~ within_deadline
    /\ cfg' = cfg + 1
    /\ UNCHANGED <<pc, clock, start_time, edge_configs, positions, i, result,
                   tried, late_call, placement, report, edits, points, hit>>

\* line 118
ReturnNone ==
    /\ pc = "while"
    /\ cfg > 4
    /\ result' = "None"
    /\ pc' = "done"
    /\ UNCHANGED <<clock, start_time, edge_configs, cfg, positions, i, tried,
                   late_call, placement, report, edits, points, hit>>

\* lines 95-116: one iteration of the inner for loop
Attempt ==
    /\ pc = "for"
    /\ i < ATTEMPTS
    /\ \E dx4, dy4 \in JitterDraws : \E o \in OffsetDraws :
         LET mc_pos == place_microcontroller(positions, dx4, dy4)
             cr_pos == place_crystal(mc_pos, o[1], o[2])
         IN  positions' = ("MICROCONTROLLER" :> mc_pos) @@ ("CRYSTAL" :> cr_pos)
                            @@ positions
    /\ placement' = _convert_to_util_format(positions')
    /\ report' = validate_placement(placement')
    /\ IF report'.valid
       THEN /\ result' = "positions"
            /\ pc' = "done"
            /\ i' = i
       ELSE /\ result' = result
            /\ i' = IF i + 1 < ATTEMPTS THEN i + 1 ELSE 0
            /\ pc' = IF i + 1 < ATTEMPTS THEN "for" ELSE "while"
    /\ tried' = tried \cup {edge_configs[cfg]}
    /\ late_call' = (late_call \/ clock - start_time >= Deadline)
    /\ UNCHANGED <<clock, start_time, edge_configs, cfg, edits, points, hit>>

\* the wall clock moves on while find_placement runs
Tick ==
    /\ pc \in {"while", "for"}
    /\ clock + TickStep <= MaxClock
    /\ clock' = clock + TickStep
    /\ UNCHANGED <<pc, start_time, edge_configs, cfg, positions, i, result,
                   tried, late_call, placement, report, edits, points, hit>>

Next ==
    \/ Start
    \/ PlaceConnectors
    \/ NextConfig
    \/ ReturnNone
    \/ Attempt
    \/ Tick

Spec == Init /\ [][Next]_vars

\* ------------------------------------------------------------------------
\* validate_placement called directly on placements a caller supplies
\* ------------------------------------------------------------------------
Rect(x, y, w, h) == [x |-> x, y |-> y, w |-> w, h |-> h]

\* USB_CONNECTOR: the four corners, the four edge midpoints, the interior
UsbChoices == {Rect(x, y, USB_SIZE, USB_SIZE) : x, y \in {0, 20, 45}}

McChoices ==
    {Rect(x, y, 10, 10) : x, y \in {10, 30}}
      \cup {Rect(20, 5, 5, 5), Rect(5, 20, 5, 5), Rect(20, 20, 5, 5),
            Rect(20, 35, 5, 5)}

CrChoices ==
    {Rect(x, y, 5, 5) : x, y \in {10, 35}}
      \cup {Rect(20, 10, 5, 5), Rect(10, 20, 5, 5), Rect(20, 40, 5, 5),
            Rect(20, 25, 5, 5), Rect(25, 20, 5, 5), Rect(25, 25, 5, 5),
            Rect(24, 22, 5, 5), Rect(22, 22, 0, 5)}

ExtraChoices == {Rect(0, 0, 5, 5), Rect(20, 28, 3, 3)}

InitV ==
    /\ pc = "idle"
    /\ clock = 0
    /\ start_time = 0
    /\ edge_configs = <<>>
    /\ cfg = 0
    /\ positions = EmptyMap
    /\ i = 0
    /\ result = "running"
    /\ tried = {}
    /\ late_call = FALSE
    /\ placement = EmptyMap
    /\ report = NoReport
    /\ edits = 0
    /\ points = <<>>
    /\ hit = FALSE

\* a caller takes the three connectors as lines 55-73 place them and adds
\* its own two internal components
ProposeGenerated ==
    /\ DOMAIN placement = {}
    /\ \E c \in EdgeConfigs :
       \E d1, d2 \in ConnDraws(mikrobus_draw_max(c[1])) :
       \E du \in ConnDraws(usb_draw_max) :
           positions' = place_mikrobus(c[1], d1, d2) @@ place_usb(c[2], du)
    /\ \E m \in McChoices : \E c \in CrChoices :
           placement' = ("MICROCONTROLLER" :> m) @@ ("CRYSTAL" :> c)
                          @@ _convert_to_util_format(positions')
    /\ report' = NoReport
    /\ edits' = 0
    /\ UNCHANGED <<pc, clock, start_time, edge_configs, cfg, i, result, tried,
                   late_call, points, hit>>

\* a caller supplies its own USB_CONNECTOR as well
ProposeArbitrary ==
    /\ DOMAIN placement = {}
    /\ \E o \in {"v", "h"} : \E d1, d2 \in ConnDraws(mikrobus_draw_max(o)) :
       \E u \in UsbChoices : \E m \in McChoices : \E c \in CrChoices :
           placement' = ("USB_CONNECTOR" :> u) @@ ("MICROCONTROLLER" :> m)
                          @@ ("CRYSTAL" :> c)
                          @@ _convert_to_util_format(place_mikrobus(o, d1, d2))
    /\ positions' = EmptyMap
    /\ report' = NoReport
    /\ edits' = 0
    /\ UNCHANGED <<pc, clock, start_time, edge_configs, cfg, i, result, tried,
                   late_call, points, hit>>

\* del placement[key]
RemoveKey ==
    /\ edits = 0
    /\ \E key \in DOMAIN placement :
           placement' = [k \in DOMAIN placement \ {key} |-> placement[k]]
    /\ report' = NoReport
    /\ edits' = 1
    /\ UNCHANGED <<pc, clock, start_time, edge_configs, cfg, positions, i,
                   result, tried, late_call, points, hit>>

\* placement['TEST_POINT'] = rect: a key that is not one of the five
AddKey ==
    /\ DOMAIN placement # {}
    /\ "TEST_POINT" \notin DOMAIN placement
    /\ edits <= 1
    /\ \E r \in ExtraChoices : placement' = ("TEST_POINT" :> r) @@ placement
    /\ report' = NoReport
    /\ edits' = 2
    /\ UNCHANGED <<pc, clock, start_time, edge_configs, cfg, positions, i,
                   result, tried, late_call, points, hit>>

Validate ==
    /\ ~ report.called
    /\ report' = validate_placement(placement)
    /\ UNCHANGED <<pc, clock, start_time, edge_configs, cfg, positions, i,
                   result, tried, late_call, placement, edits, points, hit>>

NextV ==
    \/ ProposeGenerated
    \/ ProposeArbitrary
    \/ RemoveKey
    \/ AddKey
    \/ Validate

SpecV == InitV /\ [][NextV]_vars

\* ------------------------------------------------------------------------
\* intersect called directly on four points
\* ------------------------------------------------------------------------
\* the points lie on the grid 0..GridMax x 0..GridMax
GridMax == 2

GridPoints == (0..GridMax) \X (0..GridMax)

Intersect ==
    /\ points = <<>>
    /\ \E A, B, C, D \in GridPoints :
         /\ points' = <<A, B, C, D>>
         /\ hit' = intersect(A, B, C, D)
    /\ UNCHANGED <<pc, clock, start_time, edge_configs, cfg, positions, i,
                   result, tried, late_call, placement, report, edits>>

NextG == Intersect

SpecG == InitV /\ [][NextG]_vars

\* ------------------------------------------------------------------------
\* Properties
\* ------------------------------------------------------------------------
Connectors == {"USB_CONNECTOR", "MIKROBUS_CONNECTOR_1", "MIKROBUS_CONNECTOR_2"}

Min(a, b) == IF a < b THEN a ELSE b
Max(a, b) == IF a > b THEN a ELSE b

InsideBoard(comp) ==
    /\ comp.x >= 0
    /\ comp.y >= 0
    /\ comp.x + comp.w <= 50
    /\ comp.y + comp.h <= 50

\* C1: whenever find_placement returns a placement, it holds all five kinds
\* and, in rectangle form, passes each of the seven rules.
C1_ReturnedPlacementValid ==
    result = "positions" =>
        /\ DOMAIN positions = required_keys
        /\ LET p == _convert_to_util_format(positions)
           IN  /\ all_in_bounds(p)
               /\ ~ overlap_found(p)
               /\ all_on_edge(p)
               /\ is_parallel(p)
               /\ proximity_ok(p)
               /\ balance_ok(p)
               /\ keepout_ok(p)

\* C1 witness: the search returned a placement after at least one rejected attempt
C1_Witness == pc = "done" /\ result = "positions" /\ i > 0

\* C2: validate_placement takes the early return, evaluating no rule,
\* whenever the keys of the placement are not exactly the five required
\* kinds (one missing, or one more present).
C2_ExactlyFiveOrEarlyReturn ==
    (report.called /\ DOMAIN placement # required_keys) =>
        (report.missing /\ DOMAIN report.results = {})

\* the intersection of the two rectangles has positive width and height
PositiveAreaIntersection(a, b) ==
    /\ Min(a.x + a.w, b.x + b.w) - Max(a.x, b.x) > 0
    /\ Min(a.y + a.h, b.y + b.h) - Max(a.y, b.y) > 0

AllPositiveSizes(p) == \A k \in DOMAIN p : p[k].w > 0 /\ p[k].h > 0

\* C3: for a placement of the five kinds with positive widths and heights,
\* the No-overlap rule fails exactly when two rectangles share positive area.
C3_OverlapExact ==
    (report.called /\ DOMAIN placement = required_keys
       /\ AllPositiveSizes(placement)) =>
        (~ report.results["No Overlapping"]
           <=> \E k1, k2 \in DOMAIN placement :
                  k1 # k2 /\ PositiveAreaIntersection(placement[k1], placement[k2]))

\* two rectangles that share an edge or a corner and nothing more
TouchOnly(a, b) ==
    /\ ~ PositiveAreaIntersection(a, b)
    /\ Min(a.x + a.w, b.x + b.w) - Max(a.x, b.x) >= 0
    /\ Min(a.y + a.h, b.y + b.h) - Max(a.y, b.y) >= 0

\* C3 witness: MICROCONTROLLER and CRYSTAL share only an edge or a corner and
\* the rule passes
C3_Witness ==
    /\ report.called
    /\ DOMAIN placement = required_keys
    /\ AllPositiveSizes(placement)
    /\ report.results["No Overlapping"]
    /\ TouchOnly(placement["MICROCONTROLLER"], placement["CRYSTAL"])

\* signed area of the triangle A, B, C (twice): > 0 counter-clockwise,
\* < 0 clockwise, 0 collinear
Cross(A, B, C) ==
    (B[1] - A[1]) * (C[2] - A[2]) - (B[2] - A[2]) * (C[1] - A[1])

Collinear(A, B, C) == Cross(A, B, C) = 0

\* P lies on the closed segment Q-R
OnSegment(P, Q, R) ==
    /\ Collinear(Q, R, P)
    /\ Min(Q[1], R[1]) <= P[1] /\ P[1] <= Max(Q[1], R[1])
    /\ Min(Q[2], R[2]) <= P[2] /\ P[2] <= Max(Q[2], R[2])

\* the segments cross at a single point interior to both
ProperCrossing(A, B, C, D) ==
    /\ Cross(A, B, C) * Cross(A, B, D) < 0
    /\ Cross(C, D, A) * Cross(C, D, B) < 0

\* an endpoint of one segment lies on the other segment
Touching(A, B, C, D) ==
    \/ OnSegment(A, C, D)
    \/ OnSegment(B, C, D)
    \/ OnSegment(C, A, B)
    \/ OnSegment(D, A, B)

ThreeCollinear(A, B, C, D) ==
    \/ Collinear(A, B, C)
    \/ Collinear(A, B, D)
    \/ Collinear(A, C, D)
    \/ Collinear(B, C, D)

AllCollinear(A, B, C, D) == Collinear(A, B, C) /\ Collinear(A, B, D)

\* C4 as stated: intersect is false whenever an endpoint of one segment lies
\* on the other or three of the four points are collinear, and true only for
\* proper crossings.
C4_TouchingNeverIntersects ==
    points # <<>> =>
        LET A == points[1]
            B == points[2]
            C == points[3]
            D == points[4]
        IN  /\ (Touching(A, B, C, D) \/ ThreeCollinear(A, B, C, D)) => ~ hit
            /\ hit => ProperCrossing(A, B, C, D)

\* C4, what the code does guarantee: intersect is true for every proper
\* crossing, false when the two segments have no point in common and false
\* when all four points are collinear; for a segment that only touches the
\* other the answer depends on the order and orientation of the points.
C4_ProperCrossingsAndNoFalseHits ==
    points # <<>> =>
        LET A == points[1]
            B == points[2]
            C == points[3]
            D == points[4]
        IN  /\ ProperCrossing(A, B, C, D) => hit
            /\ hit => (ProperCrossing(A, B, C, D) \/ Touching(A, B, C, D))
            /\ AllCollinear(A, B, C, D) => ~ hit

\* a T-junction reported as an intersection
C4_Witness ==
    /\ points # <<>>
    /\ hit
    /\ ~ ProperCrossing(points[1], points[2], points[3], points[4])
    /\ OnSegment(points[1], points[3], points[4])

\* the connector touches two edges of the board
AtCorner(usb) ==
    /\ usb.x = 0 \/ usb.x + usb.w = 50
    /\ usb.y = 0 \/ usb.y + usb.h = 50

\* C5: a USB connector on a corner of the board gets the zone of its y = 0
\* or y + h = 50 edge: 10 wide and 20 deep, centred on the connector in x,
\* starting at y = 0 (top edge first) or at y = 30.
C5_CornerZonePriority ==
    (report.called /\ ~ report.missing /\ AtCorner(placement["USB_CONNECTOR"])) =>
        LET usb == placement["USB_CONNECTOR"]
        IN  /\ report.zone.w = 2 * 10
            /\ report.zone.h = 2 * 20
            /\ report.zone.x = (2 * usb.x + usb.w) - 10
            /\ report.zone.y = IF usb.y = 0 THEN 0 ELSE 2 * 30

\* C5 witness: a validated placement with the USB connector in the corner
\* x = 0, y + h = 50
C5_Witness ==
    /\ report.called
    /\ ~ report.missing
    /\ placement["USB_CONNECTOR"].x = 0
    /\ placement["USB_CONNECTOR"].y + placement["USB_CONNECTOR"].h = 50

\* the connectors of the placement are those the search generated
GeneratedConnectors ==
    /\ DOMAIN positions = Connectors
    /\ DOMAIN placement = required_keys
    /\ \A name \in Connectors :
           placement[name] = _convert_to_util_format(positions)[name]

\* midpoint * 4 = sum of the two doubled centres = target centre * 4
MidpointAtTarget ==
    \A axis \in {1, 2} :
        _get_center(placement["MICROCONTROLLER"])[axis]
          + _get_center(placement["CRYSTAL"])[axis]
            = target_center(positions)[axis]

\* C6: with the three connectors where lines 55-73 put them, if the midpoint
\* of the MICROCONTROLLER and CRYSTAL centres is the target centre of lines
\* 77-89, the centre of mass of the five components is exactly (25, 25).
\* (midpoint * 4 = sum of the two doubled centres)
C6_BalanceClosedForm ==
    (report.called /\ GeneratedConnectors /\ MidpointAtTarget) =>
        /\ com_offset(placement) = <<0, 0>>
        /\ report.results["Global Balance"]

\* C6 witness: a validated placement on generated connectors whose internal
\* midpoint is the target centre
C6_Witness == report.called /\ GeneratedConnectors /\ MidpointAtTarget

\* C7: find_placement returns None only after every one of the four
\* configurations has had a candidate generated and validated.  Stated for
\* the invocations that did validate candidates; a clock that is already
\* past the deadline at the first test of line 52 is left aside.
C7_NoneOnlyAfterAllConfigs ==
    (result = "None" /\ tried # {}) => tried = EdgeConfigs

\* C8 as stated: once one validation has started at or after the deadline,
\* find_placement makes no further validate_placement call.
C8_OneLateValidation ==
    [][(late_call /\ pc = "for") => (pc' = "for" /\ i' = i)]_vars

\* the test of line 52 would fail now
DeadlinePassed == clock - start_time >= Deadline

\* C8 amended: once the clock has passed the deadline, find_placement draws
\* no new connector positions; every further validate_placement call belongs
\* to the batch of 100 attempts already running, so at most 100 follow.
C8_LateCallsStayInBatch ==
    /\ [](pc = "for" => i < ATTEMPTS)
    /\ [][(DeadlinePassed /\ pc' = "for") =>
            /\ pc = "for"
            /\ i' \in {i, i + 1}
            /\ \A name \in Connectors : positions'[name] = positions[name]]_vars

\* C8 witness: a validation made after the deadline with the batch still
\* running at its last attempt
C8_Witness == late_call /\ pc = "for" /\ i = ATTEMPTS - 1

\* C9: in every candidate handed to validate_placement the three connectors
\* lie inside the board, each touches an edge, and the two MIKROBUS
\* connectors have equal width and sit on opposite edges.
C9_ConnectorsStructural ==
    report.called =>
        /\ \A name \in Connectors : InsideBoard(placement[name])
        /\ all_on_edge(placement)
        /\ is_parallel(placement)
        /\ report.results["Edge Placement"]
        /\ report.results["Parallel Placement"]

\* C9 witness: a candidate of the search was validated and rejected
C9_Witness == report.called /\ ~ report.valid /\ pc = "for"

\* the doubled point p lies strictly inside the doubled rectangle z
StrictlyInside(p, z) ==
    /\ z.x < p[1] /\ p[1] < z.x + z.w
    /\ z.y < p[2] /\ p[2] < z.y + z.h

BothInsideZone ==
    /\ report.called
    /\ ~ report.missing
    /\ StrictlyInside(_get_center(placement["CRYSTAL"]), report.zone)
    /\ StrictlyInside(_get_center(placement["MICROCONTROLLER"]), report.zone)

\* C10: when the CRYSTAL and MICROCONTROLLER centres both lie strictly inside
\* the keep-out zone, the segment between them meets none of the four sides
\* and the Keep-out rule passes.
C10_InsideZonePasses ==
    BothInsideZone => report.results["Keep-Out Zone"]

\* C10 witness: a validated placement with both centres strictly inside the zone
C10_Witness == BothInsideZone

====
